---- MODULE Spec2Model ----
(***************************************************************************)
(* A model of the backend of full-stack-fastapi-template: the generic      *)
(* BaseService (common/base_service.py), the authorization helpers         *)
(* (common/auth.py), the item routes and ItemService (domains/items) and   *)
(* the UserService (domains/users/service.py).                             *)
(*                                                                         *)
(* Every request runs on its own database session.  A route handler is a   *)
(* sequence of steps, one per statement that reaches the database, so that *)
(* the steps of concurrent requests interleave.                            *)
(***************************************************************************)
EXTENDS Integers, Sequences, FiniteSets, TLC

\* Bounds of the model.
NumUsers == 2
MaxItems == 2
NumReq == 2
MaxPage == 2

\* Status codes the source names (fastapi.status).
HTTP_400_BAD_REQUEST == 400
HTTP_403_FORBIDDEN == 403
HTTP_404_NOT_FOUND == 404
HTTP_500_INTERNAL_SERVER_ERROR == 500

NULL == "NULL"
UserIds == 1..NumUsers
ItemIds == 1..MaxItems
Slots == 1..NumReq
Titles == {"a", "b"}
Descriptions == {"d"}
Passwords == {"password1", "password2"}
Salts == {"s1", "s2"}
EmailOf == <<"u1@x.com", "u2@x.com", "u3@x.com", "u4@x.com">>

VARIABLES
    users,      \* the user table: id -> row
    items,      \* the item table: id -> row
    next_id,    \* the next identifier uuid4 hands to a created row
    req,        \* the requests in flight: slot -> position and locals
    created_by, \* history: item id -> the owner_id its create_with_owner was given
    call,       \* history: the last service call made directly, and its result
    returned_true, \* history: item id -> how many delete_by_id calls returned True
    supplied    \* history: user id -> the passwords create_user and update_user took

vars == <<users, items, next_id, req, created_by, call, returned_true, supplied>>

(***************************************************************************)
(* Schemas and table models: a value of a schema or a row of a table is a  *)
(* function from field names to values.                                    *)
(***************************************************************************)
\* Item(ItemBase, table=True).  title is a NOT NULL column (title: str); id and
\* owner_id are NOT NULL too, and no schema lets a request write them.
ItemFields == {"id", "title", "description", "owner_id"}
ItemNotNull == {"title"}

\* User(UserBase, table=True).  email and hashed_password are NOT NULL
\* columns; is_active and is_superuser are NOT NULL too, and bool in every
\* schema that carries them.
UserFields == {"id", "email", "is_active", "is_superuser", "full_name", "hashed_password"}
UserNotNull == {"email", "hashed_password"}

\* UserCreate(UserBase): every field of UserBase, is_superuser among them, and
\* the plaintext password.
Emails == {EmailOf[k] : k \in 1..(NumUsers + 1)}
FullNames == {"n"}

UserCreate ==
    [email : Emails, is_active : BOOLEAN, is_superuser : BOOLEAN,
     full_name : FullNames \cup {NULL}, password : Passwords]

\* The values of one optional field of an update schema as
\* model_dump(exclude_unset=True) shows them: unset, or set to one of values.
Unset(field, values) == {<<>>} \cup {[f \in {field} |-> v] : v \in values}

\* UserUpdate(UserBase): email and password may each be an explicit null.
UserUpdate ==
    {e @@ p @@ n @@ su :
        e \in Unset("email", Emails \cup {NULL}),
        p \in Unset("password", Passwords \cup {NULL}),
        n \in Unset("full_name", FullNames \cup {NULL}),
        su \in Unset("is_superuser", BOOLEAN)}

\* ItemCreate: title is required (a string of 1 to 255 characters),
\* description defaults to None.
ItemCreate == [title : Titles, description : Descriptions \cup {NULL}]

\* ItemUpdate as model_dump(exclude_unset=True) shows it: the fields the
\* client set, where title and description may each be an explicit null.
ItemUpdateValues(f) ==
    IF f = "title" THEN Titles \cup {NULL} ELSE Descriptions \cup {NULL}

\* An ItemUpdate that would also accept owner_id.
ItemUpdateWithOwner ==
    LET base == UNION { { u \in [D -> Titles \cup Descriptions \cup {NULL}] :
                            \A f \in D : u[f] \in ItemUpdateValues(f) } :
                        D \in SUBSET {"title", "description"} }
    IN base \cup { [owner_id |-> o] @@ u : u \in base, o \in UserIds }

ItemUpdate ==
    UNION { { u \in [D -> Titles \cup Descriptions \cup {NULL}] :
                \A f \in D : u[f] \in ItemUpdateValues(f) } :
            D \in SUBSET {"title", "description"} }

(***************************************************************************)
(* The database session: rows are read and written by primary key.        *)
(***************************************************************************)
Restrict(f, S) == [x \in (DOMAIN f) \cap S |-> f[x]]

Remove(table, id) == [i \in (DOMAIN table) \ {id} |-> table[i]]

Min(a, b) == IF a <= b THEN a ELSE b

\* session.get(model, id): the row, or None.  An optional value is a
\* sequence of length at most one.
SessionGet(table, id) == IF id \in DOMAIN table THEN <<table[id]>> ELSE <<>>

\* The rows of a table by ascending primary key.
RECURSIVE ScanFrom(_, _)
ScanFrom(table, ids) ==
    IF ids = {} THEN <<>>
    ELSE LET first == CHOOSE i \in ids : \A j \in ids : i <= j
         IN <<table[first]>> \o ScanFrom(table, ids \ {first})

Select(table) == ScanFrom(table, DOMAIN table)

\* The orders in which a SELECT without ORDER BY may give the rows of a
\* table: the statement names none, so the store is free to use any.
Scans(table) ==
    LET n == Cardinality(DOMAIN table)
    IN {[k \in 1..n |-> table[f[k]]] :
           f \in {g \in [1..n -> DOMAIN table] :
                     \A i, j \in 1..n : i # j => g[i] # g[j]}}

RECURSIVE Where(_, _)
Where(rows, owner_id) ==
    IF rows = <<>> THEN <<>>
    ELSE (IF Head(rows).owner_id = owner_id THEN <<Head(rows)>> ELSE <<>>)
         \o Where(Tail(rows), owner_id)

\* .offset(skip).limit(limit)
OffsetLimit(rows, skip, limit) ==
    SubSeq(rows, skip + 1, Min(Len(rows), skip + limit))

\* What a raising call hands to its caller.
Raise(exc, status_code, detail) ==
    [raised |-> TRUE, exc |-> exc, status_code |-> status_code, detail |-> detail]

Return(value) == [raised |-> FALSE, value |-> value]

DBError(exc) == Raise(exc, HTTP_500_INTERNAL_SERVER_ERROR, "Internal Server Error")

(***************************************************************************)
(* common/base_service.py                                                  *)
(***************************************************************************)
\* A model_validate that leaves out update.
ModelValidateNoUpdate(fields, defaults, obj_in, update) ==
    Restrict(obj_in @@ defaults, fields)

\* model_validate(obj_in, update=extra_fields): a field comes from update when
\* update has it, else from obj_in, else from the model's default.
ModelValidate(fields, defaults, obj_in, update) ==
    Restrict(update @@ obj_in @@ defaults, fields)

\* An item table whose title column may be null.
ItemIntegrityNullable(table, row) == row.owner_id \in DOMAIN users

\* The constraints of the item table that a commit checks: the NOT NULL
\* columns and the foreign key to user.id.
ItemIntegrity(table, row) ==
    /\ \A f \in ItemNotNull : row[f] # NULL
    /\ row.owner_id \in DOMAIN users

\* The constraints of the user table that a commit checks: the NOT NULL
\* columns and the unique email.
UserIntegrity(table, row) ==
    /\ \A f \in UserNotNull : row[f] # NULL
    /\ \A i \in DOMAIN table : i # row.id => table[i].email # row.email

\* The constraints of the table of the model with these fields.
Integrity(fields, table, row) ==
    IF fields = ItemFields THEN ItemIntegrity(table, row) ELSE UserIntegrity(table, row)

\* BaseService.get
Get(table, id) == SessionGet(table, id)

\* A get_multi that forgets its offset.
GetMultiNoOffset(rows, skip, limit) == OffsetLimit(rows, 0, limit)

\* BaseService.get_multi, on the rows in the order the store gives them.
GetMulti(rows, skip, limit) == OffsetLimit(rows, skip, limit)

\* BaseService.count
Count(table) == Len(Select(table))

\* BaseService.create on the table of the model with these fields: validate,
\* add, commit, refresh.  It gives the table after the call and what the call
\* returns or raises.
Create(fields, table, new_id, obj_in, extra_fields) ==
    LET db_obj == ModelValidate(fields, [id |-> new_id], obj_in, extra_fields)
    IN IF DOMAIN db_obj # fields
       THEN [table |-> table, out |-> DBError("ValidationError")]
       ELSE IF ~Integrity(fields, table, db_obj)
       THEN [table |-> table, out |-> DBError("IntegrityError")]
       ELSE [table |-> (new_id :> db_obj) @@ table, out |-> Return(db_obj)]

\* A sqlmodel_update that skips a key whose value is None.
SqlmodelUpdateSkipNone(fields, db_obj, update_data, extra_fields) ==
    LET data == Restrict(extra_fields @@ update_data, fields)
    IN [f \in DOMAIN db_obj |->
           IF f \in DOMAIN data /\ f \in {"title", "description", "email", "full_name"}
              /\ data[f] = NULL
           THEN db_obj[f]
           ELSE IF f \in DOMAIN data THEN data[f] ELSE db_obj[f]]

\* sqlmodel_update(update_data, update=extra_fields) on the loaded object:
\* every key that is a field of the model is set, extra_fields last.
SqlmodelUpdate(fields, db_obj, update_data, extra_fields) ==
    Restrict(extra_fields @@ update_data, fields) @@ db_obj

\* The columns the flush writes: the attributes whose value differs from the
\* one the session loaded.
Dirty(db_obj, new_obj) == {f \in DOMAIN new_obj : new_obj[f] # db_obj[f]}

\* add, commit, refresh of a loaded object whose attributes were set.  The
\* UPDATE writes the dirty columns of the row with db_obj's primary key; when
\* the row is gone, the flush (StaleDataError) or the refresh
\* (InvalidRequestError) raises.
CommitUpdate(fields, table, db_obj, new_obj) ==
    LET dirty == Dirty(db_obj, new_obj)
        id == db_obj.id
    IN IF id \notin DOMAIN table
       THEN [table |-> table,
             out |-> DBError(IF dirty # {} THEN "StaleDataError" ELSE "InvalidRequestError")]
       ELSE LET row == [f \in fields |-> IF f \in dirty THEN new_obj[f] ELSE table[id][f]]
            IN IF ~Integrity(fields, table, row)
               THEN [table |-> table, out |-> DBError("IntegrityError")]
               ELSE [table |-> [table EXCEPT ![id] = row], out |-> Return(row)]

\* BaseService.update
Update(fields, table, db_obj, update_data, extra_fields) ==
    CommitUpdate(fields, table, db_obj,
                 SqlmodelUpdate(fields, db_obj, update_data, extra_fields))

\* BaseService.delete: session.delete, commit.  When the row is already gone
\* the DELETE matches no row: SQLAlchemy reports that as a warning, which
\* the process either lets pass or raises (warnings as errors).
Delete(table, db_obj) ==
    IF db_obj.id \in DOMAIN table
    THEN {[table |-> Remove(table, db_obj.id), out |-> Return(NULL)]}
    ELSE {[table |-> table, out |-> Return(NULL)],
          [table |-> table, out |-> DBError("SAWarning")]}

(***************************************************************************)
(* common/auth.py                                                          *)
(***************************************************************************)
\* A slip in the comparison: the owner is refused and everyone else let through.
RequireOwnerOrSuperuserEq(resource_owner_id, current_user, detail, status_code) ==
    IF ~current_user.is_superuser /\ resource_owner_id = current_user.id
    THEN Raise("HTTPException", status_code, detail)
    ELSE Return(NULL)

RequireOwnerOrSuperuser(resource_owner_id, current_user, detail, status_code) ==
    IF ~current_user.is_superuser /\ resource_owner_id # current_user.id
    THEN Raise("HTTPException", status_code, detail)
    ELSE Return(NULL)

\* The call with detail and status_code left to their defaults.
RequireOwnerOrSuperuserDefault(resource_owner_id, current_user) ==
    RequireOwnerOrSuperuser(resource_owner_id, current_user,
                            "Not enough permissions", HTTP_400_BAD_REQUEST)

(***************************************************************************)
(* domains/items/service.py                                                *)
(***************************************************************************)
\* A get_by_owner that forgets its WHERE clause.
GetByOwnerNoWhere(rows, owner_id, skip, limit) ==
    OffsetLimit(rows, skip, limit)

GetByOwner(rows, owner_id, skip, limit) ==
    OffsetLimit(Where(rows, owner_id), skip, limit)

CountByOwner(table, owner_id) == Len(Where(Select(table), owner_id))

CreateWithOwner(table, new_id, item_in, owner_id) ==
    Create(ItemFields, table, new_id, item_in, [owner_id |-> owner_id])

(***************************************************************************)
(* core/security.py: the credential hasher.  A hash is salted, so hashing   *)
(* the same password twice may give two hashes, each of which verifies.     *)
(***************************************************************************)
GetPasswordHash(password, salt) == "$" \o salt \o "$" \o password

VerifyPassword(password, hashed_password) ==
    \E salt \in Salts : hashed_password = GetPasswordHash(password, salt)

(***************************************************************************)
(* domains/users/service.py                                                *)
(***************************************************************************)
\* UserService.create_user: create with the hash of the password as the
\* extra field hashed_password.
CreateUser(table, new_id, user_create, salt) ==
    Create(UserFields, table, new_id, user_create,
           [hashed_password |-> GetPasswordHash(user_create.password, salt)])

\* The hasher takes a string: hashing None raises.
HashRaises(password) == password = NULL

\* An update_user that sets the fields and leaves hashed_password alone.
UpdateUserNoRehash(table, db_user, user_data, salt) ==
    CommitUpdate(UserFields, table, db_user,
                 SqlmodelUpdate(UserFields, db_user, user_data, <<>>))

\* UserService.update_user: the set fields are applied, and when password is
\* among them its hash is applied as hashed_password; password itself is no
\* field of User and is dropped.
UpdateUser(table, db_user, user_data, salt) ==
    IF "password" \in DOMAIN user_data /\ HashRaises(user_data.password)
    THEN [table |-> table, out |-> DBError("TypeError")]
    ELSE LET extra_data ==
                 IF "password" \in DOMAIN user_data
                 THEN [hashed_password |-> GetPasswordHash(user_data.password, salt)]
                 ELSE <<>>
         IN CommitUpdate(UserFields, table, db_user,
                         SqlmodelUpdate(UserFields, db_user, user_data, extra_data))

\* UserService.get_user_by_email: select(User).where(User.email == email).first()
GetUserByEmail(table, email) ==
    LET found == {i \in DOMAIN table : table[i].email = email}
    IN IF found = {} THEN <<>>
       ELSE <<table[CHOOSE i \in found : \A j \in found : i <= j]>>

\* An authenticate that does not verify the password.
AuthenticateNoVerify(table, email, password) ==
    Return(GetUserByEmail(table, email))

\* UserService.authenticate
Authenticate(table, email, password) ==
    LET db_user == GetUserByEmail(table, email)
    IN IF db_user = <<>> THEN Return(<<>>)
       ELSE IF ~VerifyPassword(password, db_user[1].hashed_password) THEN Return(<<>>)
       ELSE Return(db_user)

\* domains/auth/service.py: authenticate
AuthServiceAuthenticate(table, email, password) ==
    LET db_user == GetUserByEmail(table, email)
    IN IF db_user = <<>> THEN Return(<<>>)
       ELSE IF ~VerifyPassword(password, db_user[1].hashed_password) THEN Return(<<>>)
       ELSE Return(db_user)

(***************************************************************************)
(* domains/items/routes.py: one action per step of a handler.               *)
(***************************************************************************)
Free(s) == req[s].pc \in {"idle", "done"}

Done(op, current_user, out) ==
    [pc |-> "done", op |-> op, current_user |-> current_user, out |-> out]

\* create_item: create_with_owner with the acting user as the owner.
CreateItem(s) ==
    /\ Free(s)
    /\ next_id <= MaxItems
    /\ \E u \in DOMAIN users, item_in \in ItemCreate :
          LET current_user == users[u]
              r == CreateWithOwner(items, next_id, item_in, current_user.id)
          IN /\ items' = r.table
             /\ created_by' = IF r.out.raised THEN created_by
                              ELSE (next_id :> current_user.id) @@ created_by
             /\ req' = [req EXCEPT ![s] = Done("create_item", current_user, r.out)]
    /\ next_id' = next_id + 1
    /\ UNCHANGED <<users, call, returned_true, supplied>>

\* ItemDep = Depends(get_or_404(Item)): the dependency of read_item,
\* update_item and delete_item, resolved before the handler's body runs.
GetOr404(s, ops) ==
    /\ Free(s)
    /\ \E op \in ops,
          u \in DOMAIN users, id \in ItemIds :
          LET obj == SessionGet(items, id)
          IN req' = [req EXCEPT ![s] =
                 IF obj = <<>>
                 THEN Done(op, users[u],
                           Raise("HTTPException", HTTP_404_NOT_FOUND, "Item not found"))
                 ELSE [pc |-> "loaded", op |-> op, current_user |-> users[u],
                       item |-> obj[1]]]
    /\ UNCHANGED <<users, items, next_id, created_by, call, returned_true, supplied>>

Loaded(s, op) == req[s].pc = "loaded" /\ req[s].op = op

\* read_item
ReadItem(s) ==
    /\ Loaded(s, "read_item")
    /\ LET item == req[s].item
           current_user == req[s].current_user
           check == RequireOwnerOrSuperuserDefault(item.owner_id, current_user)
       IN req' = [req EXCEPT ![s] =
              Done("read_item", current_user,
                   IF check.raised THEN check ELSE Return(item))]
    /\ UNCHANGED <<users, items, next_id, created_by, call, returned_true, supplied>>

\* update_item
UpdateItem(s) ==
    /\ Loaded(s, "update_item")
    /\ \E item_in \in ItemUpdate :
          LET item == req[s].item
              current_user == req[s].current_user
              check == RequireOwnerOrSuperuserDefault(item.owner_id, current_user)
              r == Update(ItemFields, items, item, item_in, <<>>)
          IN IF check.raised
             THEN /\ req' = [req EXCEPT ![s] = Done("update_item", current_user, check)]
                  /\ UNCHANGED items
             ELSE /\ req' = [req EXCEPT ![s] = Done("update_item", current_user, r.out)]
                  /\ items' = r.table
    /\ UNCHANGED <<users, next_id, created_by, call, returned_true, supplied>>

\* A delete_item that deletes before it checks.
DeleteItemThenCheck(s) ==
    /\ Loaded(s, "delete_item")
    /\ LET item == req[s].item
           current_user == req[s].current_user
           check == RequireOwnerOrSuperuserDefault(item.owner_id, current_user)
       IN \E r \in Delete(items, item) :
             /\ req' = [req EXCEPT ![s] =
                    Done("delete_item", current_user,
                         IF check.raised THEN check
                         ELSE IF r.out.raised THEN r.out
                         ELSE Return("Item deleted successfully"))]
             /\ items' = r.table
    /\ UNCHANGED <<users, next_id, created_by, call, returned_true, supplied>>

\* delete_item
DeleteItem(s) ==
    /\ Loaded(s, "delete_item")
    /\ LET item == req[s].item
           current_user == req[s].current_user
           check == RequireOwnerOrSuperuserDefault(item.owner_id, current_user)
       IN IF check.raised
          THEN /\ req' = [req EXCEPT ![s] = Done("delete_item", current_user, check)]
               /\ UNCHANGED items
          ELSE \E r \in Delete(items, item) :
                  /\ req' = [req EXCEPT ![s] =
                         Done("delete_item", current_user,
                              IF r.out.raised THEN r.out
                              ELSE Return("Item deleted successfully"))]
                  /\ items' = r.table
    /\ UNCHANGED <<users, next_id, created_by, call, returned_true, supplied>>

\* read_items, first statement: the count query.
ReadItemsCount(s) ==
    /\ Free(s)
    /\ \E u \in DOMAIN users, skip \in 0..MaxPage, limit \in 0..MaxPage :
          LET current_user == users[u]
              count == IF current_user.is_superuser
                       THEN Count(items)
                       ELSE CountByOwner(items, current_user.id)
          IN req' = [req EXCEPT ![s] =
                 [pc |-> "counted", op |-> "read_items", current_user |-> current_user,
                  skip |-> skip, limit |-> limit, count |-> count]]
    /\ UNCHANGED <<users, items, next_id, created_by, call, returned_true, supplied>>

\* read_items, second statement: the list query, and the response.
ReadItemsList(s) ==
    /\ req[s].pc = "counted"
    /\ \E rows \in Scans(items) :
          LET current_user == req[s].current_user
              data == IF current_user.is_superuser
                      THEN GetMulti(rows, req[s].skip, req[s].limit)
                      ELSE GetByOwner(rows, current_user.id, req[s].skip, req[s].limit)
          IN req' = [req EXCEPT ![s] =
                 Done("read_items", current_user,
                      Return([data |-> data, count |-> req[s].count]))]
    /\ UNCHANGED <<users, items, next_id, created_by, call, returned_true, supplied>>

SeedUsers ==
    [u \in UserIds |->
        [id |-> u, email |-> EmailOf[u], is_active |-> TRUE,
         is_superuser |-> (u = 1), full_name |-> NULL,
         hashed_password |-> GetPasswordHash("password1", "s1")]]

Init ==
    /\ users = SeedUsers
    /\ items = <<>>
    /\ next_id = 1
    /\ req = [s \in Slots |-> [pc |-> "idle"]]
    /\ created_by = <<>>
    /\ call = [fn |-> "none"]
    /\ returned_true = [i \in ItemIds |-> 0]
    /\ supplied = <<>>

\* The item handlers that work on one item.
Next ==
    \E s \in Slots :
        \/ CreateItem(s)
        \/ GetOr404(s, {"read_item", "update_item", "delete_item"})
        \/ ReadItem(s)
        \/ UpdateItem(s)
        \/ DeleteItem(s)

Spec == Init /\ [][Next]_vars

\* The listing handler, beside requests that create and delete items.
NextList ==
    \E s \in Slots :
        \/ CreateItem(s)
        \/ GetOr404(s, {"delete_item"})
        \/ DeleteItem(s)
        \/ ReadItemsCount(s)
        \/ ReadItemsList(s)

SpecList == Init /\ [][NextList]_vars

(***************************************************************************)
(* Single calls of the helpers and services, each made once on a database   *)
(* that earlier requests have filled.                                       *)
(***************************************************************************)
ItemRows ==
    [id : ItemIds, title : Titles, description : Descriptions \cup {NULL},
     owner_id : UserIds]

\* The item tables that requests can leave behind.
ItemTables ==
    UNION { {t \in [D -> ItemRows] : \A i \in D : t[i].id = i} : D \in SUBSET ItemIds }

InitCalls ==
    /\ users = SeedUsers
    /\ items \in ItemTables
    /\ next_id = NumUsers + MaxItems + 1
    /\ req = [s \in Slots |-> [pc |-> "idle"]]
    /\ created_by = [i \in DOMAIN items |-> items[i].owner_id]
    /\ call = [fn |-> "none"]
    /\ returned_true = [i \in ItemIds |-> 0]
    /\ supplied = <<>>

\* What a caller passes to override the failure of require_owner_or_superuser.
Overrides ==
    [detail : {"Not enough permissions", "Not the owner"},
     status_code : {HTTP_400_BAD_REQUEST, HTTP_403_FORBIDDEN}]

CallRequireOwnerOrSuperuser ==
    /\ call.fn = "none"
    /\ \E resource_owner_id \in UserIds, u \in DOMAIN users :
          \/ call' = [fn |-> "require_owner_or_superuser",
                      resource_owner_id |-> resource_owner_id,
                      current_user |-> users[u], overridden |-> FALSE,
                      detail |-> "", status_code |-> 0,
                      out |-> RequireOwnerOrSuperuserDefault(resource_owner_id, users[u])]
          \/ \E o \in Overrides :
                call' = [fn |-> "require_owner_or_superuser",
                         resource_owner_id |-> resource_owner_id,
                         current_user |-> users[u], overridden |-> TRUE,
                         detail |-> o.detail, status_code |-> o.status_code,
                         out |-> RequireOwnerOrSuperuser(resource_owner_id, users[u],
                                                         o.detail, o.status_code)]
    /\ UNCHANGED <<users, items, next_id, req, created_by, returned_true, supplied>>

CallCreateUser ==
    /\ call.fn = "none"
    /\ \E user_create \in UserCreate, salt \in Salts :
          LET r == CreateUser(users, next_id, user_create, salt)
          IN /\ users' = r.table
             /\ call' = [fn |-> "create_user", obj_in |-> user_create,
                         extra_fields |-> [hashed_password |->
                             GetPasswordHash(user_create.password, salt)],
                         out |-> r.out]
    /\ next_id' = next_id + 1
    /\ UNCHANGED <<items, req, created_by, returned_true, supplied>>

CallCreateWithOwner ==
    /\ call.fn = "none"
    /\ \E item_in \in ItemCreate, owner_id \in UserIds :
          LET r == CreateWithOwner(items, next_id, item_in, owner_id)
          IN /\ items' = r.table
             /\ created_by' = IF r.out.raised THEN created_by
                              ELSE (next_id :> owner_id) @@ created_by
             /\ call' = [fn |-> "create_with_owner", obj_in |-> item_in,
                         extra_fields |-> [owner_id |-> owner_id], out |-> r.out]
    /\ next_id' = next_id + 1
    /\ UNCHANGED <<users, req, returned_true, supplied>>

\* The extra fields a caller of update may pass for an item.
ItemExtras ==
    {<<>>} \cup {[title |-> t] : t \in Titles}
           \cup {[description |-> d] : d \in Descriptions}

\* item_service.update on an item the caller has just loaded.
CallUpdate ==
    /\ call.fn = "none"
    /\ \E id \in DOMAIN items, obj_in \in ItemUpdate, extra_fields \in ItemExtras :
          LET db_obj == Get(items, id)[1]
              r == Update(ItemFields, items, db_obj, obj_in, extra_fields)
          IN /\ items' = r.table
             /\ call' = [fn |-> "update", db_obj |-> db_obj, obj_in |-> obj_in,
                         extra_fields |-> extra_fields, out |-> r.out]
    /\ UNCHANGED <<users, next_id, req, created_by, returned_true, supplied>>

NextCalls ==
    \/ CallRequireOwnerOrSuperuser
    \/ CallCreateUser
    \/ CallCreateWithOwner
    \/ CallUpdate

SpecCalls == InitCalls /\ [][NextCalls]_vars

(***************************************************************************)
(* item_service called directly: create_with_owner, and delete_by_id by     *)
(* callers that run side by side, each on its own session.                  *)
(***************************************************************************)
ServiceCreateWithOwner ==
    /\ next_id <= MaxItems
    /\ \E item_in \in ItemCreate, owner_id \in UserIds :
          LET r == CreateWithOwner(items, next_id, item_in, owner_id)
          IN /\ items' = r.table
             /\ created_by' = IF r.out.raised THEN created_by
                              ELSE (next_id :> owner_id) @@ created_by
    /\ next_id' = next_id + 1
    /\ UNCHANGED <<users, req, call, returned_true, supplied>>

\* delete_by_id, first statement: obj = self.get(session, id)
DeleteByIdGet(s) ==
    /\ Free(s)
    /\ \E id \in ItemIds :
          req' = [req EXCEPT ![s] =
                     [pc |-> "got", op |-> "delete_by_id", id |-> id,
                      obj |-> Get(items, id)]]
    /\ UNCHANGED <<users, items, next_id, created_by, call, returned_true, supplied>>

\* delete_by_id, the rest: if obj: self.delete(...); return True; return False
DeleteByIdDelete(s) ==
    /\ req[s].pc = "got"
    /\ LET id == req[s].id
           obj == req[s].obj
       IN IF obj # <<>>
          THEN \E r \in Delete(items, obj[1]) :
                  /\ items' = r.table
                  /\ req' = [req EXCEPT ![s] =
                         [pc |-> "done", op |-> "delete_by_id", id |-> id,
                          out |-> IF r.out.raised THEN r.out ELSE Return(TRUE)]]
                  /\ returned_true' =
                         IF r.out.raised THEN returned_true
                         ELSE [returned_true EXCEPT ![id] = @ + 1]
          ELSE /\ req' = [req EXCEPT ![s] =
                      [pc |-> "done", op |-> "delete_by_id", id |-> id,
                       out |-> Return(FALSE)]]
               /\ UNCHANGED <<items, returned_true>>
    /\ UNCHANGED <<users, next_id, created_by, call, supplied>>

NextStore ==
    \/ ServiceCreateWithOwner
    \/ \E s \in Slots : DeleteByIdGet(s) \/ DeleteByIdDelete(s)

SpecStore == Init /\ [][NextStore]_vars

(***************************************************************************)
(* The user service called directly: create_user, update_user on a user the *)
(* caller has just loaded, and authenticate.                                *)
(***************************************************************************)
InitUsers ==
    /\ users = <<>>
    /\ items = <<>>
    /\ next_id = 1
    /\ req = [s \in Slots |-> [pc |-> "idle"]]
    /\ created_by = <<>>
    /\ call = [fn |-> "none"]
    /\ returned_true = [i \in ItemIds |-> 0]
    /\ supplied = <<>>

\* The inputs of a sign-up: an active user who is no superuser.
SignUps == {c \in UserCreate : c.is_active /\ ~c.is_superuser}

\* The updates of email and password.
CredentialUpdates == {u \in UserUpdate : DOMAIN u \subseteq {"email", "password"}}

ServiceCreateUser ==
    /\ next_id <= NumUsers
    /\ \E user_create \in SignUps, salt \in Salts :
          LET r == CreateUser(users, next_id, user_create, salt)
          IN /\ users' = r.table
             /\ supplied' = IF r.out.raised THEN supplied
                            ELSE (next_id :> [last |-> user_create.password,
                                              earlier |-> {}]) @@ supplied
    /\ next_id' = next_id + 1
    /\ call' = [fn |-> "none"]
    /\ UNCHANGED <<items, req, created_by, returned_true>>

ServiceUpdateUser ==
    /\ \E id \in DOMAIN users, user_in \in CredentialUpdates, salt \in Salts :
          LET db_user == Get(users, id)[1]
              r == UpdateUser(users, db_user, user_in, salt)
          IN /\ users' = r.table
             /\ supplied' =
                   IF r.out.raised \/ "password" \notin DOMAIN user_in THEN supplied
                   ELSE [supplied EXCEPT ![id] =
                            [last |-> user_in.password,
                             earlier |-> @.earlier \cup {@.last}]]
    /\ call' = [fn |-> "none"]
    /\ UNCHANGED <<items, next_id, req, created_by, returned_true>>

ServiceAuthenticate ==
    /\ \E email \in Emails, password \in Passwords :
          \/ call' = [fn |-> "authenticate", email |-> email, password |-> password,
                      out |-> Authenticate(users, email, password)]
          \/ call' = [fn |-> "authenticate", email |-> email, password |-> password,
                      out |-> AuthServiceAuthenticate(users, email, password)]
    /\ UNCHANGED <<users, items, next_id, req, created_by, returned_true, supplied>>

NextUsers ==
    \/ ServiceCreateUser
    \/ ServiceUpdateUser
    \/ ServiceAuthenticate

SpecUsers == InitUsers /\ [][NextUsers]_vars

(***************************************************************************)
(* Properties of the item handlers.                                        *)
(***************************************************************************)
IsDone(s, op) == req[s].pc = "done" /\ req[s].op = op

Succeeded(s, op) == IsDone(s, op) /\ ~req[s].out.raised

Refused(s, op) ==
    /\ IsDone(s, op)
    /\ req[s].out.raised
    /\ req[s].out.exc = "HTTPException"
    /\ req[s].out.status_code # HTTP_404_NOT_FOUND

\* C1: whenever a step changes or removes an existing item, it is a step of an
\* update_item or delete_item request on that item whose actor is a superuser
\* or has the id that is the item's owner_id.
C1_OnlyOwnerOrSuperuserChanges ==
    [][\A id \in DOMAIN items :
          (id \notin DOMAIN items' \/ items'[id] # items[id]) =>
             \E s \in Slots :
                /\ req[s].pc = "loaded"
                /\ req'[s] # req[s]
                /\ req[s].item.id = id
                /\ \/ req[s].current_user.is_superuser
                   \/ req[s].current_user.id = items[id].owner_id]_vars

\* C1 witness: an owner who is no superuser has updated their item, and another
\* request, of an actor who is neither, was refused.
C1_Witness ==
    \E s, t \in Slots :
       /\ Succeeded(s, "update_item")
       /\ ~req[s].current_user.is_superuser
       /\ req[s].out.value.owner_id = req[s].current_user.id
       /\ Refused(t, "delete_item")

\* C5: every existing item has one owner_id, a user id, and it is the owner_id
\* its create_with_owner call was given.
C5_OwnerNeverChanges ==
    \A id \in DOMAIN items :
       /\ items[id].owner_id \in UserIds
       /\ id \in DOMAIN created_by
       /\ items[id].owner_id = created_by[id]

\* C5 witness: a superuser has updated an item of another user, and the item
\* exists.
C5_Witness ==
    \E s \in Slots :
       /\ Succeeded(s, "update_item")
       /\ req[s].current_user.is_superuser
       /\ req[s].out.value.owner_id # req[s].current_user.id
       /\ req[s].out.value.id \in DOMAIN items

\* The ownership check of the request in slot s is about to fail.
CheckFails(s) ==
    /\ req[s].pc = "loaded"
    /\ req[s].op \in {"update_item", "delete_item"}
    /\ ~req[s].current_user.is_superuser
    /\ req[s].current_user.id # req[s].item.owner_id

\* C10: the step of an update_item or delete_item request whose ownership
\* check fails ends the request with the check's failure and leaves the item
\* table as it is, and so does the step before it, which loads the item.
C10_RefusedRequestChangesNothing ==
    [][\A s \in Slots :
          /\ (CheckFails(s) /\ req'[s] # req[s]) =>
                /\ req'[s].pc = "done"
                /\ req'[s].out.raised
                /\ req'[s].out.exc = "HTTPException"
                /\ req'[s].out.detail = "Not enough permissions"
                /\ items' = items
          /\ (Free(s) /\ req'[s].pc = "loaded") => items' = items]_vars

\* C10 witness: a delete_item request was refused and the item it named is
\* still there, as it was loaded.
C10_Witness ==
    \E s \in Slots, id \in DOMAIN items :
       /\ Refused(s, "delete_item")
       /\ items[id].owner_id # req[s].current_user.id
       /\ ~req[s].current_user.is_superuser

(***************************************************************************)
(* Properties of the listing handler.                                      *)
(***************************************************************************)
\* The items a user may see: all of them for a superuser, their own otherwise.
Visible(current_user, table) ==
    {i \in DOMAIN table : current_user.is_superuser \/ table[i].owner_id = current_user.id}

\* C3: read_items never raises; its count query gives the number of items the
\* actor may see (their own, or all for a superuser) in the table it reads, its
\* list query gives rows of the table that the actor may see, and all of them
\* when the page starts at 0 and is long enough.
C3_ListingIsVisibilityRule ==
    [][\A s \in Slots :
          /\ (Free(s) /\ req'[s].pc = "counted") =>
                req'[s].count = Cardinality(Visible(req'[s].current_user, items))
          /\ (req[s].pc = "counted" /\ req'[s] # req[s]) =>
                LET current_user == req[s].current_user
                    data == req'[s].out.value.data
                    seen == {data[k].id : k \in 1..Len(data)}
                    mine == Visible(current_user, items)
                IN /\ req'[s].pc = "done"
                   /\ ~req'[s].out.raised
                   /\ req'[s].out.value.count = req[s].count
                   /\ seen \subseteq mine
                   /\ \A k \in 1..Len(data) : data[k] = items[data[k].id]
                   /\ Cardinality(seen) = Len(data)
                   /\ (req[s].skip = 0 /\ req[s].limit >= Cardinality(mine)) => seen = mine]_vars

\* C3 witness: a user who is no superuser has listed their own item while the
\* table holds an item of another owner, and a superuser has listed both.
C3_Witness ==
    \E s, t \in Slots :
       /\ Succeeded(s, "read_items")
       /\ ~req[s].current_user.is_superuser
       /\ req[s].out.value.count = 1
       /\ Len(req[s].out.value.data) = 1
       /\ \E id \in DOMAIN items : items[id].owner_id # req[s].current_user.id
       /\ Succeeded(t, "read_items")
       /\ req[t].current_user.is_superuser
       /\ req[t].out.value.count = 2
       /\ Len(req[t].out.value.data) = 2

(***************************************************************************)
(* Properties of single calls.                                             *)
(***************************************************************************)
Called(fn) == call.fn = fn

\* C2 as claimed: the check raises exactly for an actor who is neither a
\* superuser nor the owner, with a 403 when the caller overrides nothing and
\* with the caller's status and message otherwise.
C2_DefaultIsForbidden ==
    Called("require_owner_or_superuser") =>
       LET allowed == \/ call.current_user.is_superuser
                      \/ call.current_user.id = call.resource_owner_id
       IN /\ call.out.raised <=> ~allowed
          /\ (call.out.raised /\ ~call.overridden) =>
                call.out.status_code = HTTP_403_FORBIDDEN
          /\ (call.out.raised /\ call.overridden) =>
                /\ call.out.status_code = call.status_code
                /\ call.out.detail = call.detail

\* C2 as amended: the same, but the failure of a call that overrides nothing
\* is a 400 with the message "Not enough permissions".
C2_DefaultIsBadRequest ==
    Called("require_owner_or_superuser") =>
       LET allowed == \/ call.current_user.is_superuser
                      \/ call.current_user.id = call.resource_owner_id
       IN /\ call.out.raised <=> ~allowed
          /\ (call.out.raised /\ ~call.overridden) =>
                /\ call.out.exc = "HTTPException"
                /\ call.out.status_code = HTTP_400_BAD_REQUEST
                /\ call.out.detail = "Not enough permissions"
          /\ (call.out.raised /\ call.overridden) =>
                /\ call.out.exc = "HTTPException"
                /\ call.out.status_code = call.status_code
                /\ call.out.detail = call.detail

\* C2 witness: a call that overrides nothing has refused an actor who is
\* neither a superuser nor the owner.
C2_Witness ==
    /\ Called("require_owner_or_superuser")
    /\ ~call.overridden
    /\ call.out.raised
    /\ ~call.current_user.is_superuser
    /\ call.current_user.id # call.resource_owner_id

Privileged == {"is_superuser", "owner_id", "hashed_password"}

CreateCalled == Called("create_user") \/ Called("create_with_owner")

CreatedFields == IF Called("create_user") THEN UserFields ELSE ItemFields

CreateInputs == IF Called("create_user") THEN UserCreate ELSE ItemCreate

\* The record the same create would validate from another client input.
Revalidated(obj_in) ==
    ModelValidate(CreatedFields, [id |-> call.out.value.id], obj_in, call.extra_fields)

\* C4 as claimed: whatever the client input, a creation with the same extra
\* fields gives the same is_superuser, owner_id and hashed_password.
C4_InputSetsNoPrivilegedField ==
    (CreateCalled /\ ~call.out.raised) =>
       \A obj_in \in CreateInputs : \A f \in Privileged \cap CreatedFields :
          Revalidated(obj_in)[f] = call.out.value[f]

\* C4 as amended: owner_id and hashed_password are the values of the extra
\* fields whatever the client input, and a creation with valid extra fields
\* succeeds; is_superuser is the value the UserCreate input carries.
C4_ExtraFieldsSetOwnerAndHash ==
    /\ Called("create_with_owner") =>
          /\ ~call.out.raised
          /\ call.out.value.owner_id = call.extra_fields.owner_id
          /\ \A obj_in \in ItemCreate :
                Revalidated(obj_in).owner_id = call.out.value.owner_id
    /\ Called("create_user") =>
          /\ call.out.raised <=>
                \E u \in UserIds : SeedUsers[u].email = call.obj_in.email
          /\ ~call.out.raised =>
                /\ call.out.value.hashed_password = call.extra_fields.hashed_password
                /\ call.out.value.is_superuser = call.obj_in.is_superuser
                /\ \A obj_in \in UserCreate :
                      Revalidated(obj_in).hashed_password = call.out.value.hashed_password

\* C4 witness: a user was created from an input that sets is_superuser.
C4_Witness ==
    /\ Called("create_user")
    /\ ~call.out.raised
    /\ call.obj_in.is_superuser
    /\ call.out.value.id \in DOMAIN users
    /\ users[call.out.value.id].is_superuser

\* What update is to leave in field f of the row.
Updated(f) ==
    IF f \in DOMAIN call.extra_fields THEN call.extra_fields[f]
    ELSE IF f \in DOMAIN call.obj_in THEN call.obj_in[f]
    ELSE call.db_obj[f]

\* C8 as claimed: after update, every field that extra_fields or the input
\* carries has the carried value, an explicit null included, and every other
\* field has the value it had.
C8_UpdateWritesEverySetField ==
    Called("update") => \A f \in ItemFields : items[call.db_obj.id][f] = Updated(f)

\* C8 as amended: the same when the update leaves a title; an update that
\* would leave the title null raises IntegrityError and changes nothing.
C8_UpdateWritesSetFieldsOrFails ==
    Called("update") =>
       LET row == items[call.db_obj.id]
       IN IF Updated("title") = NULL
          THEN /\ call.out.raised
               /\ call.out.exc = "IntegrityError"
               /\ row = call.db_obj
          ELSE /\ ~call.out.raised
               /\ call.out.value = row
               /\ \A f \in ItemFields : row[f] = Updated(f)

\* C8 witness: an update whose input carries only an explicit null
\* description has cleared the description and kept the title.
C8_Witness ==
    /\ Called("update")
    /\ DOMAIN call.obj_in = {"description"}
    /\ call.obj_in.description = NULL
    /\ call.extra_fields = <<>>
    /\ call.db_obj.description # NULL
    /\ ~call.out.raised
    /\ items[call.db_obj.id].description = NULL
    /\ items[call.db_obj.id].title = call.db_obj.title

(***************************************************************************)
(* Properties of delete_by_id.                                             *)
(***************************************************************************)
\* C9: of the delete_by_id calls on an id that was created, at most one has
\* returned True, exactly one once the item is gone, and none has raised.
C9_DeleteByIdTrueOnce ==
    /\ \A id \in ItemIds :
          /\ returned_true[id] <= 1
          /\ (id < next_id /\ id \notin DOMAIN items) => returned_true[id] = 1
    /\ \A s \in Slots : IsDone(s, "delete_by_id") => ~req[s].out.raised

(***************************************************************************)
(* Properties of the user service.                                        *)
(***************************************************************************)
\* The users with this email whose stored hash the password verifies against.
Matching(email, password) ==
    {i \in DOMAIN users :
        /\ users[i].email = email
        /\ VerifyPassword(password, users[i].hashed_password)}

\* C6: authenticate never raises; it returns the user with the email when the
\* password verifies against that user's hash, and the one absent result both
\* for an email no user has and for a password that does not verify.
C6_AuthenticateAbsentOnMismatch ==
    Called("authenticate") =>
       /\ ~call.out.raised
       /\ IF Matching(call.email, call.password) = {}
          THEN call.out.value = <<>>
          ELSE \E i \in Matching(call.email, call.password) :
                  call.out.value = <<users[i]>>

\* C6 witness: authenticate has returned absent for a registered email with a
\* password that does not verify.
C6_Witness ==
    /\ Called("authenticate")
    /\ \E i \in DOMAIN users :
          /\ users[i].email = call.email
          /\ ~VerifyPassword(call.password, users[i].hashed_password)
    /\ call.out.value = <<>>

\* C7: the stored hashed_password of every user verifies against the password
\* of the last create_user or update_user that succeeded with one, fails
\* against every earlier password that differs from it, and no field of the
\* row is one of these passwords, nor is there a password field.
C7_HashOfLastPassword ==
    \A id \in DOMAIN users :
       /\ id \in DOMAIN supplied
       /\ VerifyPassword(supplied[id].last, users[id].hashed_password)
       /\ \A p \in supplied[id].earlier \ {supplied[id].last} :
             ~VerifyPassword(p, users[id].hashed_password)
       /\ DOMAIN users[id] = UserFields
       /\ \A f \in {"email", "full_name", "hashed_password"} :
             users[id][f] \notin Passwords

\* C7 witness: a user's password was updated to another one.
C7_Witness ==
    \E id \in DOMAIN users :
       /\ id \in DOMAIN supplied
       /\ supplied[id].earlier # {}
       /\ supplied[id].last \notin supplied[id].earlier

(***************************************************************************)
(* The user table and the item table together: users and items are created *)
(* and deleted through their services.  uuid4 hands every created row, of   *)
(* either table, a fresh identifier.                                        *)
(***************************************************************************)
MaxIds == NumUsers + MaxItems

\* The rows of the item table that belong to a user: User.items, and the rows
\* ON DELETE CASCADE removes with the user.
ItemsOf(itable, user_id) == {i \in DOMAIN itable : itable[i].owner_id = user_id}

\* A delete of a user that leaves the user's items where they are.
DeleteUserNoCascade(utable, itable, db_obj) ==
    {[table |-> r.table, items |-> itable, out |-> r.out] : r \in Delete(utable, db_obj)}

\* BaseService.delete on a User: session.delete cascades to User.items
\* (cascade_delete=True) and the DELETE of the user row cascades to the item
\* rows that refer to it (ondelete="CASCADE"), all in the one commit.
DeleteUser(utable, itable, db_obj) ==
    {[table |-> r.table,
      items |-> IF r.out.raised THEN itable
                ELSE Restrict(itable, (DOMAIN itable) \ ItemsOf(itable, db_obj.id)),
      out |-> r.out] : r \in Delete(utable, db_obj)}

InitCascade ==
    /\ users = <<>>
    /\ items = <<>>
    /\ next_id = 1
    /\ req = [s \in Slots |-> [pc |-> "idle"]]
    /\ created_by = <<>>
    /\ call = [fn |-> "none"]
    /\ returned_true = [i \in ItemIds |-> 0]
    /\ supplied = <<>>

\* user_service.create_user
CascadeCreateUser ==
    /\ next_id <= MaxIds
    /\ \E user_create \in SignUps :
          /\ user_create.password = "password1"
          /\ user_create.full_name = NULL
          /\ users' = CreateUser(users, next_id, user_create, "s1").table
    /\ next_id' = next_id + 1
    /\ call' = [fn |-> "create_user"]
    /\ UNCHANGED <<items, req, created_by, returned_true, supplied>>

\* item_service.create_with_owner, for the id of any user there is or was.
CascadeCreateItem ==
    /\ next_id <= MaxIds
    /\ \E item_in \in ItemCreate, owner_id \in 1..MaxIds :
          LET r == CreateWithOwner(items, next_id, item_in, owner_id)
          IN /\ item_in.title = "a"
             /\ items' = r.table
             /\ call' = [fn |-> "create_with_owner", owner_id |-> owner_id, out |-> r.out]
    /\ next_id' = next_id + 1
    /\ UNCHANGED <<users, req, created_by, returned_true, supplied>>

\* item_service.delete
CascadeDeleteItem ==
    /\ \E id \in DOMAIN items : \E r \in Delete(items, items[id]) :
          /\ items' = r.table
          /\ call' = [fn |-> "delete_item", id |-> id, out |-> r.out]
    /\ UNCHANGED <<users, next_id, req, created_by, returned_true, supplied>>

\* user_service.delete
CascadeDeleteUser ==
    /\ \E id \in DOMAIN users : \E r \in DeleteUser(users, items, users[id]) :
          /\ users' = r.table
          /\ items' = r.items
          /\ call' = [fn |-> "delete_user", id |-> id,
                      owned |-> ItemsOf(items, id), out |-> r.out]
    /\ UNCHANGED <<next_id, req, created_by, returned_true, supplied>>

NextCascade ==
    \/ CascadeCreateUser
    \/ CascadeCreateItem
    \/ CascadeDeleteItem
    \/ CascadeDeleteUser

SpecCascade == InitCascade /\ [][NextCascade]_vars

\* C11: every item's owner_id is the id of a user in the user table, and the
\* delete of a user has left no item of that user behind.
C11_EveryItemHasItsOwner ==
    /\ \A i \in DOMAIN items : items[i].owner_id \in DOMAIN users
    /\ Called("delete_user") /\ ~call.out.raised =>
          /\ call.id \notin DOMAIN users
          /\ ItemsOf(items, call.id) = {}

\* C11 witness: a user who owned an item was deleted while another user's item
\* stayed.
C11_Witness ==
    /\ Called("delete_user")
    /\ ~call.out.raised
    /\ call.owned # {}
    /\ items # <<>>

(***************************************************************************)
(* The listing and counting queries of item_service, each made on a table   *)
(* that earlier requests have filled.                                       *)
(***************************************************************************)
PageGetMulti ==
    /\ call.fn = "none"
    /\ \E rows \in Scans(items), skip \in 0..(MaxItems + 1), limit \in 0..(MaxItems + 1) :
          call' = [fn |-> "get_multi", order |-> rows, skip |-> skip, limit |-> limit,
                   out |-> Return(GetMulti(rows, skip, limit))]
    /\ UNCHANGED <<users, items, next_id, req, created_by, returned_true, supplied>>

PageGetByOwner ==
    /\ call.fn = "none"
    /\ \E rows \in Scans(items), owner_id \in UserIds,
          skip \in 0..(MaxItems + 1), limit \in 0..(MaxItems + 1) :
          call' = [fn |-> "get_by_owner", owner_id |-> owner_id, order |-> rows,
                   skip |-> skip, limit |-> limit,
                   out |-> Return(GetByOwner(rows, owner_id, skip, limit))]
    /\ UNCHANGED <<users, items, next_id, req, created_by, returned_true, supplied>>

PageCount ==
    /\ call.fn = "none"
    /\ call' = [fn |-> "count", out |-> Return(Count(items))]
    /\ UNCHANGED <<users, items, next_id, req, created_by, returned_true, supplied>>

PageCountByOwner ==
    /\ call.fn = "none"
    /\ \E owner_id \in UserIds :
          call' = [fn |-> "count_by_owner", owner_id |-> owner_id,
                   out |-> Return(CountByOwner(items, owner_id))]
    /\ UNCHANGED <<users, items, next_id, req, created_by, returned_true, supplied>>

NextPages ==
    \/ PageGetMulti
    \/ PageGetByOwner
    \/ PageCount
    \/ PageCountByOwner

SpecPages == InitCalls /\ [][NextPages]_vars

\* The entities a listing call ranges over, as positions of the order the
\* store gave the rows in: all of them, or those of the owner asked for.
Listed ==
    LET Mine(k) == Called("get_multi") \/ call.order[k].owner_id = call.owner_id
    IN {k \in 1..Len(call.order) : Mine(k)}

\* The position in the store's order of the j-th listed entity.
NthListed(j) ==
    CHOOSE k \in Listed : Cardinality({i \in Listed : i <= k}) = j

\* C12: a listing call does not raise and returns, in the store's order, the
\* entities after the first skip ones, limit of them at most: none when skip is
\* at or beyond their number.  A count call returns the number of entities
\* (of the owner, for count_by_owner).
C12_ListIsWindowOfStoreOrder ==
    /\ Called("get_multi") \/ Called("get_by_owner") =>
          LET n == Cardinality(Listed)
              data == call.out.value
          IN /\ ~call.out.raised
             /\ Len(data) = IF call.skip >= n THEN 0
                            ELSE IF n - call.skip <= call.limit THEN n - call.skip
                            ELSE call.limit
             /\ \A j \in 1..Len(data) : data[j] = call.order[NthListed(call.skip + j)]
    /\ Called("count") =>
          ~call.out.raised /\ call.out.value = Cardinality(DOMAIN items)
    /\ Called("count_by_owner") =>
          /\ ~call.out.raised
          /\ call.out.value = Cardinality(ItemsOf(items, call.owner_id))

\* C12 witness: of two entities, which the store gave with the later created
\* one first, get_multi(skip=1, limit=2) has returned the second one alone.
C12_Witness ==
    /\ Called("get_multi")
    /\ Len(call.order) = 2
    /\ call.order[1].id > call.order[2].id
    /\ call.skip = 1
    /\ call.limit = 2
    /\ call.out.value = <<call.order[2]>>

(***************************************************************************)
(* Items created and updated from request bodies: a body becomes an          *)
(* ItemCreate or an ItemUpdate when it passes the schema's Field             *)
(* constraints, and only then is the service called.                        *)
(***************************************************************************)
\* title: str = Field(min_length=1, max_length=255)
TitleMinLength == 1
TitleMaxLength == 255

RECURSIVE Repeat(_, _)
Repeat(c, n) ==
    IF n = 0 THEN ""
    ELSE LET half == Repeat(c, n \div 2)
         IN half \o half \o (IF n % 2 = 1 THEN c ELSE "")

\* The titles a body may carry: good ones, the longest good one, an empty
\* one and one that is a character too long.
BodyTitles == {"a", "", Repeat("x", TitleMaxLength), Repeat("x", TitleMaxLength + 1)}

\* The constraints of the title field.
TitleConstraint(title) ==
    Len(title) >= TitleMinLength /\ Len(title) <= TitleMaxLength

ItemCreateBodies == [title : BodyTitles \cup {NULL}, description : {NULL}]

\* ItemCreate(**body): title is a str within the constraints.
IsItemCreate(body) == body.title # NULL /\ TitleConstraint(body.title)

ItemUpdateBodies ==
    {t @@ d : t \in Unset("title", BodyTitles \cup {NULL}),
              d \in Unset("description", Descriptions)}

\* ItemUpdate(**body): title is None or a str within the constraints.
IsItemUpdate(body) ==
    "title" \in DOMAIN body => body.title = NULL \/ TitleConstraint(body.title)

\* item_service.create_with_owner(item_in=ItemCreate(**body), owner_id=...)
TitleCreateWithOwner ==
    /\ next_id <= MaxItems
    /\ \E body \in ItemCreateBodies, owner_id \in UserIds :
          IF IsItemCreate(body)
          THEN LET r == CreateWithOwner(items, next_id, body, owner_id)
               IN /\ items' = r.table
                  /\ next_id' = next_id + 1
                  /\ call' = [fn |-> "create_with_owner", item_in |-> body, out |-> r.out]
          ELSE /\ call' = [fn |-> "create_with_owner", item_in |-> body,
                           out |-> DBError("ValidationError")]
               /\ UNCHANGED <<items, next_id>>
    /\ UNCHANGED <<users, req, created_by, returned_true, supplied>>

\* item_service.update(db_obj=item, obj_in=ItemUpdate(**body)) on an item the
\* caller has just loaded.
TitleUpdate ==
    /\ \E id \in DOMAIN items, body \in ItemUpdateBodies :
          IF IsItemUpdate(body)
          THEN LET r == Update(ItemFields, items, Get(items, id)[1], body, <<>>)
               IN /\ items' = r.table
                  /\ call' = [fn |-> "update", id |-> id, obj_in |-> body, out |-> r.out]
          ELSE /\ call' = [fn |-> "update", id |-> id, obj_in |-> body,
                           out |-> DBError("ValidationError")]
               /\ UNCHANGED items
    /\ UNCHANGED <<users, next_id, req, created_by, returned_true, supplied>>

NextTitles ==
    \/ TitleCreateWithOwner
    \/ TitleUpdate

SpecTitles == Init /\ [][NextTitles]_vars

C14_CountAndDataFromOneState ==
    [][\A s \in Slots :
          (req[s].pc = "counted" /\ req'[s].pc = "done") =>
             /\ Len(req'[s].out.value.data) <= req'[s].out.value.count
             /\ req'[s].out.value.count =
                   Cardinality(Visible(req[s].current_user, items))]_vars

====
